---- MODULE Spec2Model ----
(***************************************************************************)
(* pico-di: a dependency-injection container (src/index.js).               *)
(*                                                                         *)
(* A registry maps service names to (lifetime, create).  A provider owns   *)
(* the registry and the singleton cache, a scope owns the scoped cache and *)
(* the resolution path, a context is a Proxy whose property reads call     *)
(* ServiceScope.resolve.  Execution is single threaded: one top-level      *)
(* property read runs at a time, and the factories it calls read further   *)
(* properties from the context they are given.  The JavaScript call stack  *)
(* of one top-level read is the variable frames; an exception in flight is *)
(* the variable exc.                                                       *)
(***************************************************************************)
EXTENDS Integers, Sequences, FiniteSets, TLC

\* ------------------------------------------------------------------ bounds

\* Number of scopes created by beginScope / begin.
MaxScopes == 2
\* Number of top-level property reads.
MaxReads == 2
\* Number of top-level property reads of the mixed-lifetime fixture of the tests.
MixedReads == 3
\* Number of addSingleton / addScoped / addTransient calls on a builder.
MaxAdds == 3

\* ------------------------------------------------------------------ values

\* JavaScript's undefined; instances are the integers 1, 2, ... in creation order.
Undefined == 0
\* The value an exotic context holds under a name.
ExoticValue == -1

\* The providers createProvider can make.
Providers == {"p1", "p2"}

\* Service names the registries register, and a name no registry registers.
Names == {"a", "b", "c"}
Keys == Names \cup {"z"}

\* Property keys that are not strings: a Proxy's get trap receives a string or
\* a symbol (a number used as a key arrives as a string).
Symbols == {"Symbol(s)"}

\* typeof name === "string"
IsString(key) == key \notin Symbols

\* The name the get trap answers with undefined, so that a context is no thenable.
Reserved == "then"

Lifetimes == {"singleton", "scoped", "transient"}

\* A Map: a function whose domain is the set of keys it holds.
EmptyMap == [k \in {} |-> Undefined]

\* Map.prototype.get: undefined for an absent key.
MapGet(m, k) == IF k \in DOMAIN m THEN m[k] ELSE Undefined

\* Map.prototype.set
MapSet(m, k, v) == [x \in (DOMAIN m) \cup {k} |-> IF x = k THEN v ELSE m[x]]

\* ------------------------------------------------------------- factories

(* A registered factory is user code.  It is modelled by the property reads *)
(* it makes on the context it receives, in order (deps), and by how it ends *)
(* after them: it returns a new object ("ok"), returns undefined ("undef"), *)
(* or throws ("throw").                                                     *)
Outcomes == {"ok", "undef", "throw"}

\* The fixture of src/test.ts: A(), B({a}), C({a, b}).
ShapeChain == [a |-> <<>>, b |-> <<"a">>, c |-> <<"a", "b">>]
\* c reads b reads a: the deepest nesting three names allow.
ShapeLine == [a |-> <<>>, b |-> <<"a">>, c |-> <<"b">>]
\* a reads itself; c reads a name that is not registered.
ShapeSelf == [a |-> <<"a">>, b |-> <<>>, c |-> <<"z">>]
\* a and b read each other; c is outside the cycle.
ShapeCycle2 == [a |-> <<"b">>, b |-> <<"a">>, c |-> <<>>]
\* a cycle through all three names.
ShapeCycle3 == [a |-> <<"b">>, b |-> <<"c">>, c |-> <<"a">>]

AllOk == [n \in Names |-> "ok"]

\* ServiceRegistryBuilder.#add: the descriptor stored under a name.
Descriptor(lifetime, deps, outcome) ==
    [lifetime |-> lifetime, deps |-> deps, outcome |-> outcome]

MkRegistry(lt, shape, out) ==
    [n \in Names |-> Descriptor(lt[n], shape[n], out[n])]

Lt(la, lb, lc) == [a |-> la, b |-> lb, c |-> lc]

\* One lifetime for all names, and two mixed assignments.
SomeLifetimes ==
    { Lt(l, l, l) : l \in Lifetimes }
    \cup { Lt("singleton", "scoped", "transient"), Lt("transient", "scoped", "singleton") }

(* The registries the model is run on: the fixture of the tests under every *)
(* assignment of lifetimes, the cyclic registries, and registries in which  *)
(* the innermost factory returns undefined or throws.                       *)
Registries ==
    { MkRegistry(lt, ShapeChain, AllOk) : lt \in [Names -> Lifetimes] }
    \cup
    { MkRegistry(lt, sh, AllOk) :
        lt \in SomeLifetimes, sh \in {ShapeSelf, ShapeCycle2, ShapeCycle3} }
    \cup
    { MkRegistry(Lt(la, l, l), ShapeLine, [AllOk EXCEPT !["a"] = o]) :
        la \in Lifetimes, l \in Lifetimes, o \in {"undef", "throw"} }


\* ------------------------------------------------------------------ errors

NoError == [name |-> "none", kind |-> "none", at |-> ""]

\* throwError: an Error whose name is "ResolveError".
ResolveError(kind, at) == [name |-> "ResolveError", kind |-> kind, at |-> at]

\* What a throwing factory throws: not a ResolveError, and it names its factory.
FactoryError(at) == [name |-> "Error", kind |-> "factory", at |-> at]

\* What converting a symbol to a string throws.
TypeError(at) == [name |-> "TypeError", kind |-> "symbol to string", at |-> at]

(* The template literal `Invalid service name: ${name}`: the message, as the *)
(* key it names, or the TypeError that the conversion of a symbol throws.   *)
TemplateLiteral(key) ==
    IF key \in Symbols
    THEN [ok |-> FALSE, error |-> TypeError(key)]
    ELSE [ok |-> TRUE, error |-> NoError]

\* ---------------------------------------------------------------- messages

(* The values the field name of a scope takes: null (its initial value),    *)
(* undefined, or a string the caller has assigned.                          *)
Null == [type |-> "null", value |-> ""]
UndefinedName == [type |-> "undefined", value |-> ""]
Str(v) == [type |-> "string", value |-> v]

\* `${this.name}`: the conversion of the value to a string.
StringOf(v) ==
    IF v = Null THEN "null"
    ELSE IF v = UndefinedName THEN "undefined"
    ELSE v.value

\* One name of a trace, bracketed or not.
Token(n, marked) == [name |-> n, marked |-> marked]

(* A message: the label between the slashes, the text before the colon, and *)
(* the trace, whose entries " -> " separates.                               *)
NoMessage == [label |-> "", text |-> "", trace |-> <<>>]

\* path.lastIndexOf(name), for a name the path holds.
LastIndexOf(path, name) ==
    CHOOSE i \in 1..Len(path) :
        /\ path[i] = name
        /\ \A j \in 1..Len(path) : path[j] = name => j <= i

\* The path with entry index1 bracketed, and the requested name, bracketed.
Trace(path, index1, name) ==
    [i \in 1..Len(path) |-> Token(path[i], i = index1)] \o <<Token(name, TRUE)>>

\* The message of #throwErrorIfCircularReferenced.
CircularMessage(scopeName, path, name) ==
    [label |-> IF scopeName = Null THEN "(unnamed)" ELSE StringOf(scopeName),
     text |-> "Invalid service resolution",
     trace |-> Trace(path, LastIndexOf(path, name), name)]

(* The message of #throwErrorIfLifetimeExceeded: the walk from the end of   *)
(* the path stops at the first singleton; the label compares the name of    *)
(* the scope with undefined.                                                *)
LifetimeMessage(reg, scopeName, path, name) ==
    LET index1 == CHOOSE i \in 1..Len(path) :
                      /\ reg[path[i]].lifetime = "singleton"
                      /\ \A j \in 1..Len(path) :
                            reg[path[j]].lifetime = "singleton" => j <= i
    IN  [label |-> IF scopeName = UndefinedName THEN "(unnamed)" ELSE StringOf(scopeName),
         text |-> "Invalid service lifetime",
         trace |-> Trace(path, index1, name)]

\* The message an exception is created with, by the check that throws it.
ErrorMessage(reg, scopeName, path, e) ==
    IF e.name = "ResolveError" /\ e.kind = "circular"
    THEN CircularMessage(scopeName, path, e.at)
    ELSE IF e.name = "ResolveError" /\ e.kind = "lifetime"
    THEN LifetimeMessage(reg, scopeName, path, e.at)
    ELSE IF e.name = "ResolveError"
    THEN [label |-> "", text |-> "Invalid service name", trace |-> <<Token(e.at, FALSE)>>]
    ELSE [label |-> "", text |-> e.kind, trace |-> <<>>]

\* ------------------------------------------------------- registry and scope

\* ServiceRegistry.has
RegistryHas(reg, name) == name \in DOMAIN reg

(* ServiceRegistry.get: the descriptor, or for an absent name the           *)
(* ResolveError whose message the template literal builds; for a symbol    *)
(* the literal throws its TypeError before throwError is called.           *)
RegistryGet(reg, name) ==
    IF RegistryHas(reg, name)
    THEN [ok |-> TRUE, descriptor |-> reg[name], error |-> NoError]
    ELSE [ok |-> FALSE, descriptor |-> Descriptor("none", <<>>, "ok"),
          error |-> IF TemplateLiteral(name).ok
                    THEN ResolveError("invalid name", name)
                    ELSE TemplateLiteral(name).error]

\* A circular check that never throws.
throwErrorIfCircularReferenced_Never(path, name) == FALSE

\* #throwErrorIfCircularReferenced: TRUE when it throws (lastIndexOf(name) !== -1).
throwErrorIfCircularReferenced(path, name) ==
    \E i \in 1..Len(path) : path[i] = name

\* A lifetime check that looks at the most recent entry of the path only.
throwErrorIfLifetimeExceeded_TopOnly(reg, path) ==
    /\ path # <<>>
    /\ RegistryGet(reg, path[Len(path)]).descriptor.lifetime = "singleton"

\* #throwErrorIfLifetimeExceeded: TRUE when it throws (a singleton is on the path).
throwErrorIfLifetimeExceeded(reg, path) ==
    \E i \in 1..Len(path) : RegistryGet(reg, path[i]).descriptor.lifetime = "singleton"

\* The cache lookup of resolve: a hit is a value other than undefined.
CacheHit(cache, name) == MapGet(cache, name) # Undefined

(* A resolve that runs the lifetime check on every miss, whatever the       *)
(* lifetime of the name: singleton and transient as well as scoped.         *)
resolve_CheckEveryMiss(reg, retainedSingleton, retainedScoped, path, name) ==
    LET got == RegistryGet(reg, name)
        lifetime == got.descriptor.lifetime
        Ret(v) == [kind |-> "return", value |-> v, error |-> NoError]
        Thr(e) == [kind |-> "throw", value |-> Undefined, error |-> e]
        Call == [kind |-> "call", value |-> Undefined, error |-> NoError]
    IN  IF throwErrorIfCircularReferenced(path, name)
        THEN Thr(ResolveError("circular", name))
        ELSE IF ~got.ok THEN Thr(got.error)
        ELSE IF lifetime = "singleton" /\ CacheHit(retainedSingleton, name)
        THEN Ret(MapGet(retainedSingleton, name))
        ELSE IF lifetime = "scoped" /\ CacheHit(retainedScoped, name)
        THEN Ret(MapGet(retainedScoped, name))
        ELSE IF throwErrorIfLifetimeExceeded(reg, path)
        THEN Thr(ResolveError("lifetime", name))
        ELSE Call

(* ServiceScope.resolve up to the call of create(context): the value it     *)
(* returns from a cache ("return"), the ResolveError it throws ("throw"),   *)
(* or the construction it starts ("call": name is pushed on the path).      *)
resolve(reg, retainedSingleton, retainedScoped, path, name) ==
    LET got == RegistryGet(reg, name)
        lifetime == got.descriptor.lifetime
        Ret(v) == [kind |-> "return", value |-> v, error |-> NoError]
        Thr(e) == [kind |-> "throw", value |-> Undefined, error |-> e]
        Call == [kind |-> "call", value |-> Undefined, error |-> NoError]
    IN  IF throwErrorIfCircularReferenced(path, name)
        THEN Thr(ResolveError("circular", name))
        ELSE IF ~got.ok THEN Thr(got.error)
        ELSE IF lifetime = "singleton"
        THEN IF CacheHit(retainedSingleton, name)
             THEN Ret(MapGet(retainedSingleton, name))
             ELSE Call
        ELSE IF lifetime = "scoped"
        THEN IF CacheHit(retainedScoped, name)
             THEN Ret(MapGet(retainedScoped, name))
             ELSE IF throwErrorIfLifetimeExceeded(reg, path)
                  THEN Thr(ResolveError("lifetime", name))
                  ELSE Call
        ELSE Call

(* An exotic context, the argument of createContext: whether it is other   *)
(* than undefined (given), whether it is an object, its own entries (map), *)
(* and whether Object.prototype is on its prototype chain (proto).         *)
NoExotic == [given |-> FALSE, object |-> FALSE, proto |-> FALSE, map |-> EmptyMap]

\* An object literal with the entries of m.
Exotic(m) == [given |-> TRUE, object |-> TRUE, proto |-> TRUE, map |-> m]

\* Object.create(null) with the entries of m.
ExoticBare(m) == [given |-> TRUE, object |-> TRUE, proto |-> FALSE, map |-> m]

\* null, or a primitive value: not undefined and no object.
ExoticNull == [given |-> TRUE, object |-> FALSE, proto |-> FALSE, map |-> EmptyMap]

\* The string properties of Object.prototype, which every object literal inherits.
ObjectPrototype ==
    { "constructor", "hasOwnProperty", "isPrototypeOf", "propertyIsEnumerable",
      "toLocaleString", "toString", "valueOf", "__proto__",
      "__defineGetter__", "__defineSetter__", "__lookupGetter__", "__lookupSetter__" }

\* What the inherited properties hold: the functions of Object.prototype.
PrototypeValue == -2

\* What the in operator throws when its right operand is no object.
InTypeError(key) == [name |-> "TypeError", kind |-> "in operator", at |-> key]

\* exoticContext !== undefined && name in exoticContext throws: no object.
InThrows(exotic) == exotic.given /\ ~exotic.object

(* exoticContext !== undefined && name in exoticContext: the in operator    *)
(* finds own properties and those of the prototype chain.                   *)
InExotic(exotic, key) ==
    /\ exotic.given
    /\ exotic.object
    /\ \/ key \in DOMAIN exotic.map
       \/ exotic.proto /\ key \in ObjectPrototype

\* exoticContext[name], for a name the in operator has found.
ExoticGet(exotic, key) ==
    IF key \in DOMAIN exotic.map THEN exotic.map[key] ELSE PrototypeValue

\* A get trap that asks the registry first and the exotic context last.
ContextGet_RegistryFirst(reg, retainedSingleton, retainedScoped, path, exotic, key) ==
    IF ~IsString(key)
    THEN [kind |-> "throw", value |-> Undefined,
          error |-> IF TemplateLiteral(key).ok
                    THEN ResolveError("invalid name", key)
                    ELSE TemplateLiteral(key).error]
    ELSE IF key = Reserved
    THEN [kind |-> "reserved", value |-> Undefined, error |-> NoError]
    ELSE IF RegistryHas(reg, key)
    THEN resolve(reg, retainedSingleton, retainedScoped, path, key)
    ELSE IF InThrows(exotic)
    THEN [kind |-> "throw", value |-> Undefined, error |-> InTypeError(key)]
    ELSE IF InExotic(exotic, key)
    THEN [kind |-> "exotic", value |-> ExoticGet(exotic, key), error |-> NoError]
    ELSE resolve(reg, retainedSingleton, retainedScoped, path, key)

\* A get trap without the guard for the reserved name.
ContextGet_NoReserved(reg, retainedSingleton, retainedScoped, path, exotic, key) ==
    IF ~IsString(key)
    THEN [kind |-> "throw", value |-> Undefined,
          error |-> IF TemplateLiteral(key).ok
                    THEN ResolveError("invalid name", key)
                    ELSE TemplateLiteral(key).error]
    ELSE IF InThrows(exotic)
    THEN [kind |-> "throw", value |-> Undefined, error |-> InTypeError(key)]
    ELSE IF InExotic(exotic, key)
    THEN [kind |-> "exotic", value |-> ExoticGet(exotic, key), error |-> NoError]
    ELSE resolve(reg, retainedSingleton, retainedScoped, path, key)

(* The get trap of the context's Proxy: a key that is no string throws, and *)
(* building the message of the ResolveError comes first; the reserved name  *)
(* gives undefined ("reserved"); an exotic entry wins ("exotic"); every     *)
(* other name is resolved by the scope.                                     *)
ContextGet(reg, retainedSingleton, retainedScoped, path, exotic, key) ==
    IF ~IsString(key)
    THEN [kind |-> "throw", value |-> Undefined,
          error |-> IF TemplateLiteral(key).ok
                    THEN ResolveError("invalid name", key)
                    ELSE TemplateLiteral(key).error]
    ELSE IF key = Reserved
    THEN [kind |-> "reserved", value |-> Undefined, error |-> NoError]
    ELSE IF InThrows(exotic)
    THEN [kind |-> "throw", value |-> Undefined, error |-> InTypeError(key)]
    ELSE IF InExotic(exotic, key)
    THEN [kind |-> "exotic", value |-> ExoticGet(exotic, key), error |-> NoError]
    ELSE resolve(reg, retainedSingleton, retainedScoped, path, key)


\* The exotic contexts createContext is called with: none, or one that holds a
\* registered name ("a") and a name outside the registry ("z").
ExoticChoices == {NoExotic, Exotic([k \in {"a", "z"} |-> ExoticValue])}

\* ------------------------------------------------------------------- state

VARIABLES
    registry,           \* the registry the providers were created from: name to descriptor
    builder,            \* the builder of the registry: names in order, calls made, build()
    spread,             \* what the last spread of a context has produced
    providers,          \* the providers created from it
    retainedSingleton,  \* ServiceProvider.#retainedSingleton, per provider
    scopes,             \* the scopes created so far: provider, #retainedScoped, #path
    context,            \* the context the caller holds: scope, exoticContext, and
                        \* whether the caller's last call was of resolve itself (direct)
    frames,             \* the factories executing now, outermost first: name, vals, got
    busy,               \* whether a top-level read is in progress
    exc,                \* the exception propagating up the frames, NoError when none
    thrown,             \* the exception as it was thrown during the last top-level read
    message,            \* the message that exception was created with
    result,             \* how the last top-level read ended
    nextId,             \* the next fresh instance
    nreads,             \* top-level reads made so far
    budget,             \* top-level calls the caller makes in all, reads included
    stats,              \* per scope and name: counts of reads and factory executions
    returned,           \* per scope and name: the values resolve has returned
    tainted             \* instances whose construction obtained a scoped instance

vars == <<registry, builder, spread, providers, retainedSingleton, scopes, context, frames, busy, exc,
          thrown, message, result, nextId, nreads, budget, stats, returned, tainted>>

Zero == [n \in Names |-> 0]

(* Counters of one scope, per name.  reads: property reads of the name on a  *)
(* context of the scope; resolves: calls of resolve; circular: calls of     *)
(* resolve that the circular check rejected; called: calls of create;       *)
(* failed: calls of create that ended with an exception; undefs: calls of   *)
(* create that returned undefined.                                          *)
NoStats == [reads |-> Zero, resolves |-> Zero, circular |-> Zero,
            called |-> Zero, failed |-> Zero, undefs |-> Zero]

\* The order in which the registries of Registries were registered.
NameOrder == <<"a", "b", "c", "then">>

\* One call of addSingleton / addScoped / addTransient: the name and what #add stores.
Call(name, d) == [name |-> name, descriptor |-> d]

\* new ServiceRegistryBuilder(): no call made, build() not called.
NewBuilder ==
    [names |-> <<>>, calls |-> <<>>, built |-> FALSE,
     frozen |-> [registry |-> EmptyMap, names |-> <<>>]]

\* Object.freeze(map): the same Map; freezing an object does not reach the
\* entries of a Map, which set and delete still change.
freeze(m) == m

\* The builder after new ServiceRegistry(build), when build registered reg in order.
BuiltBuilder(reg) ==
    LET names == SelectSeq(NameOrder, LAMBDA n : n \in DOMAIN reg)
    IN  [names |-> names,
         calls |-> [i \in 1..Len(names) |-> Call(names[i], reg[names[i]])],
         built |-> TRUE,
         frozen |-> [registry |-> freeze(reg), names |-> names]]

\* No context was spread yet.
NoSpread == [done |-> FALSE, entries |-> EmptyMap]

\* No read was made yet.
NoContext == [scope |-> 0, exotic |-> NoExotic, direct |-> FALSE]

NoResult == [kind |-> "none", value |-> Undefined, error |-> NoError, key |-> ""]

\* new ServiceScope(registry, retainedSingleton)
NewScope(p) == [provider |-> p, retainedScoped |-> EmptyMap, path |-> <<>>, name |-> Null]

\* The state after createProvider(registry) for each provider of ps.
InitWith(regs, ps, reads) ==
    /\ registry \in regs
    /\ builder = BuiltBuilder(registry)
    /\ spread = NoSpread
    /\ providers = ps
    /\ budget = reads
    /\ retainedSingleton = [p \in ps |-> EmptyMap]
    /\ scopes = <<>>
    /\ context = NoContext
    /\ frames = <<>>
    /\ busy = FALSE
    /\ exc = NoError
    /\ thrown = NoError
    /\ message = NoMessage
    /\ result = NoResult
    /\ nextId = 1
    /\ nreads = 0
    /\ stats = <<>>
    /\ returned = <<>>
    /\ tainted = {}

\* One provider, created from any of the registries.
Init == InitWith(Registries, {"p1"}, MaxReads)

Idle == ~busy

\* ServiceProvider.beginScope
BeginScope(p) ==
    /\ Idle
    /\ builder.built
    /\ p \in providers
    /\ Len(scopes) < MaxScopes
    /\ scopes' = Append(scopes, NewScope(p))
    /\ stats' = Append(stats, NoStats)
    /\ returned' = Append(returned, [n \in Names |-> {}])
    /\ UNCHANGED <<registry, builder, spread, providers, retainedSingleton, context, frames, busy, exc,
                   thrown, message, result, nextId, nreads, budget, tainted>>

\* ------------------------------------------------------------ property reads

Bump(st, field, n) == [st EXCEPT ![field][n] = @ + 1]

(* The frame of a factory that resolve of scope s has just called, with the *)
(* context of the call in progress or, in a read through the context of     *)
(* another scope (foreign), with that context.  pre: the factory has made   *)
(* its read through the context of another scope.                           *)
NewFrame(name, s, foreign) ==
    [name |-> name, vals |-> <<>>, got |-> FALSE,
     scope |-> s, foreign |-> foreign, pre |-> FALSE]

(* The property reads the factory of frame fr makes on the context it was   *)
(* called with: those of its descriptor; none when it was called with the   *)
(* context of another scope, where it returns or throws at once.            *)
FrameDeps(fr) == IF fr.foreign THEN <<>> ELSE registry[fr.name].deps

\* The factory of frame fr has read this many of its properties.
Pc(fr) == Len(fr.vals) + 1

(* A factory receives the value of the property it read and goes on: vals   *)
(* are the values it has read so far.  got records whether its construction *)
(* has obtained a scoped instance, from the scope directly or inside an     *)
(* instance that was built from one (dirty).                                *)
Advance(fr, key, v, viaScope, dirty) ==
    [fr EXCEPT
        !.vals = Append(@, v),
        !.got = @ \/ ( /\ viaScope
                       /\ v # Undefined
                       /\ \/ registry[key].lifetime = "scoped"
                          \/ dirty )]

Value(key, v) ==
    [kind |-> "value", value |-> v, error |-> NoError, key |-> key]

\* A top-level read whose resolution is still running.
Pending(key) ==
    [kind |-> "pending", value |-> Undefined, error |-> NoError, key |-> key]

Thrown(key, e) ==
    [kind |-> "error", value |-> Undefined, error |-> e, key |-> key]

\* A push that puts the name at the front of the path.
PathPush_Front(path, name) == <<name>> \o path

\* #path.push(name)
PathPush(path, name) == Append(path, name)

\* A resolve whose finally blocks do not pop the path.
PathPop_Leak(path) == path

\* #path.pop() of the finally blocks of resolve
PathPop(path) == SubSeq(path, 1, Len(path) - 1)

(* Whether a call with outcome r has called resolve: a direct call has; the *)
(* get trap has when resolve returned, called create or threw, and has not *)
(* when the trap itself answered (reserved, exotic) or threw its TypeError *)
(* (a symbol in the template literal, the in operator on no object).       *)
ResolveCalled(r, trapped) ==
    \/ ~trapped
    \/ r.kind \in {"return", "call"}
    \/ r.kind = "throw" /\ r.error.name = "ResolveError"

(* What follows a call with outcome r, of the get trap of ctx (trapped) or  *)
(* of resolve itself: the value goes to the caller or to the factory that   *)
(* made the call, the exception starts going up, or create is called with   *)
(* ctx, after the name was pushed on the path of the scope.                 *)
Dispatch(ctx, key, r, trapped) ==
    LET s == ctx.scope
        sc == scopes[s]
        nested == frames # <<>>
        isName == key \in Names
        st0 == stats[s]
        st1 == IF isName /\ trapped THEN Bump(st0, "reads", key) ELSE st0
        st2 == IF isName /\ ResolveCalled(r, trapped)
               THEN Bump(st1, "resolves", key) ELSE st1
        st3 == IF isName /\ r.kind = "throw" /\ r.error.kind = "circular"
               THEN Bump(st2, "circular", key) ELSE st2
        st4 == IF isName /\ r.kind = "call" THEN Bump(st3, "called", key) ELSE st3
    IN  /\ stats' = [stats EXCEPT ![s] = st4]
        /\ CASE r.kind \in {"reserved", "exotic", "return"} ->
                /\ returned' = IF isName /\ r.kind = "return"
                               THEN [returned EXCEPT ![s][key] = @ \cup {r.value}]
                               ELSE returned
                /\ IF nested
                   THEN /\ frames' = [frames EXCEPT ![Len(frames)] =
                                        Advance(@, key, r.value, r.kind = "return",
                                                r.value \in tainted)]
                        /\ UNCHANGED <<result, thrown, message>>
                   ELSE /\ result' = Value(key, r.value)
                        /\ thrown' = NoError
                        /\ message' = NoMessage
                        /\ UNCHANGED frames
                /\ UNCHANGED <<scopes, exc>>
             [] r.kind = "throw" ->
                /\ IF nested
                   THEN /\ exc' = r.error
                        /\ UNCHANGED result
                   ELSE /\ result' = Thrown(key, r.error)
                        /\ UNCHANGED exc
                /\ thrown' = r.error
                /\ message' = ErrorMessage(registry, sc.name, sc.path, r.error)
                /\ UNCHANGED <<scopes, frames, returned>>
             [] r.kind = "call" ->
                /\ scopes' = [scopes EXCEPT ![s].path = PathPush(@, key)]
                /\ frames' = Append(frames, NewFrame(key, s, FALSE))
                /\ result' = IF nested THEN result ELSE Pending(key)
                /\ thrown' = IF nested THEN thrown ELSE NoError
                /\ message' = IF nested THEN message ELSE NoMessage
                /\ UNCHANGED <<exc, returned>>
        /\ UNCHANGED <<registry, builder, spread, providers, retainedSingleton, nextId, tainted>>

(* One read of property key on context ctx (the get trap and resolve up to  *)
(* the call of create), made by the top-level caller when no factory is     *)
(* executing and by the innermost executing factory otherwise: create is    *)
(* called with the context whose get trap called resolve.                   *)
GetStep(ctx, key) ==
    Dispatch(ctx, key,
             ContextGet(registry, retainedSingleton[scopes[ctx.scope].provider],
                        scopes[ctx.scope].retainedScoped, scopes[ctx.scope].path,
                        ctx.exotic, key),
             TRUE)

(* The top-level caller reads property key of a context that createContext  *)
(* made for scope s with the exotic context x.  A context holds no state of *)
(* its own (it is a Proxy over its scope and its exotic context), so it is  *)
(* modelled from the read that uses it.                                     *)
TopRead(s, x, key) ==
    /\ Idle
    /\ s \in 1..Len(scopes)
    /\ nreads < budget
    /\ context' = [scope |-> s, exotic |-> x, direct |-> FALSE]
    /\ GetStep(context', key)
    /\ nreads' = nreads + 1
    /\ busy' = (frames' # <<>>)
    /\ UNCHANGED budget

(* The top-level caller calls scope.resolve(name, context) itself, with a   *)
(* context that createContext made for scope s with the exotic context x:    *)
(* resolve is a method of the scope, bound to it in the constructor.  The    *)
(* call does not pass the get trap.  It is one of the calls the caller       *)
(* makes and no property read.                                               *)
ResolveDirect(s, x, name) ==
    /\ Idle
    /\ s \in 1..Len(scopes)
    /\ nreads < budget
    /\ context' = [scope |-> s, exotic |-> x, direct |-> TRUE]
    /\ Dispatch(context', name,
                resolve(registry, retainedSingleton[scopes[s].provider],
                        scopes[s].retainedScoped, scopes[s].path, name),
                FALSE)
    /\ budget' = budget - 1
    /\ busy' = (frames' # <<>>)
    /\ UNCHANGED nreads

Running == busy /\ exc = NoError /\ frames # <<>>

TopFrame == frames[Len(frames)]

\* The factory that is executing reads its next property from its context.
FactoryRead ==
    /\ Running
    /\ Pc(TopFrame) <= Len(FrameDeps(TopFrame))
    /\ GetStep(context, FrameDeps(TopFrame)[Pc(TopFrame)])
    /\ UNCHANGED <<context, busy, nreads, budget>>

\* A resolve that loses the instance of a singleton instead of retaining it.
StoreSingleton_Never(lifetime) == FALSE

\* A resolve that retains every instance in the scope, whatever its lifetime.
StoreScoped_Always(lifetime) == TRUE

\* A singleton cache that is one global Map instead of a field of the provider.
RetainSingleton_Global(rs, p, name, instance) ==
    [q \in DOMAIN rs |-> MapSet(rs[q], name, instance)]

\* resolve after create(context) returned: which cache the instance is stored in.
StoreSingleton(lifetime) == lifetime = "singleton"

StoreScoped(lifetime) == lifetime = "scoped"

\* this.#retainedSingleton.set(name, instance): the Map of the scope's provider.
RetainSingleton(rs, p, name, instance) ==
    [rs EXCEPT ![p] = MapSet(@, name, instance)]

(* The executing factory returns: resolve pops the path (finally), stores    *)
(* the instance in the cache of its lifetime and returns it to the reader.  *)
FactoryReturn ==
    /\ Running
    /\ Pc(TopFrame) > Len(FrameDeps(TopFrame))
    /\ registry[TopFrame.name].outcome # "throw"
    /\ LET name == TopFrame.name
           d == registry[name]
           s == TopFrame.scope
           p == scopes[s].provider
           instance == IF d.outcome = "undef" THEN Undefined ELSE nextId
           callers == SubSeq(frames, 1, Len(frames) - 1)
       IN  /\ nextId' = IF d.outcome = "undef" THEN nextId ELSE nextId + 1
           /\ tainted' = IF instance # Undefined /\ TopFrame.got
                         THEN tainted \cup {instance} ELSE tainted
           /\ scopes' = [scopes EXCEPT
                  ![s].path = PathPop(@),
                  ![s].retainedScoped =
                      IF StoreScoped(d.lifetime) THEN MapSet(@, name, instance) ELSE @]
           /\ retainedSingleton' =
                  IF StoreSingleton(d.lifetime)
                  THEN RetainSingleton(retainedSingleton, p, name, instance)
                  ELSE retainedSingleton
           /\ stats' = IF instance = Undefined /\ name \in Names
                       THEN [stats EXCEPT ![s] = Bump(@, "undefs", name)]
                       ELSE stats
           /\ returned' = IF name \in Names
                          THEN [returned EXCEPT ![s][name] = @ \cup {instance}]
                          ELSE returned
           /\ IF callers = <<>>
              THEN /\ frames' = <<>>
                   /\ result' = Value(result.key, instance)
                   /\ busy' = FALSE
              ELSE /\ frames' = [callers EXCEPT ![Len(callers)] =
                          IF TopFrame.foreign
                          THEN [@ EXCEPT !.pre = TRUE]
                          ELSE Advance(@, name, instance, TRUE, TopFrame.got)]
                   /\ UNCHANGED <<result, busy>>
    /\ UNCHANGED <<registry, builder, spread, providers, context, exc, thrown, message, nreads, budget>>

\* The executing factory throws.
FactoryThrow ==
    /\ Running
    /\ Pc(TopFrame) > Len(FrameDeps(TopFrame))
    /\ registry[TopFrame.name].outcome = "throw"
    /\ exc' = FactoryError(TopFrame.name)
    /\ thrown' = exc'
    /\ message' = ErrorMessage(registry, scopes[TopFrame.scope].name,
                                scopes[TopFrame.scope].path, exc')
    /\ UNCHANGED <<registry, builder, spread, providers, retainedSingleton, scopes, context, frames, busy,
                   result, nextId, nreads, budget, stats, returned, tainted>>

\* A resolve that catches what create throws and retains a substitute instance.
SetAfterThrow_Retained(cache, name, stores) ==
    IF stores THEN MapSet(cache, name, 1) ELSE cache

\* The set(name, instance) after the try statement, which a throw of create skips.
SetAfterThrow(cache, name, stores) == cache

(* An exception leaves the innermost executing factory: the finally block   *)
(* of its resolve pops the path, nothing is stored, and the exception goes  *)
(* on to the reader, which is the next factory or the top-level caller.     *)
Unwind ==
    /\ busy
    /\ exc # NoError
    /\ frames # <<>>
    /\ LET name == TopFrame.name
           s == TopFrame.scope
           callers == SubSeq(frames, 1, Len(frames) - 1)
           p == scopes[s].provider
           lifetime == registry[name].lifetime
       IN  /\ scopes' = [scopes EXCEPT
                  ![s].path = PathPop(@),
                  ![s].retainedScoped = SetAfterThrow(@, name, StoreScoped(lifetime))]
           /\ retainedSingleton' =
                  [retainedSingleton EXCEPT
                      ![p] = SetAfterThrow(@, name, StoreSingleton(lifetime))]
           /\ stats' = IF name \in Names
                       THEN [stats EXCEPT ![s] = Bump(@, "failed", name)]
                       ELSE stats
           /\ frames' = callers
           /\ IF callers = <<>>
              THEN /\ result' = Thrown(result.key, exc)
                   /\ exc' = NoError
                   /\ busy' = FALSE
              ELSE UNCHANGED <<result, exc, busy>>
    /\ UNCHANGED <<registry, builder, spread, providers, context, thrown, message, nextId,
                   nreads, budget, returned, tainted>>

Next ==
    \/ \E p \in Providers : BeginScope(p)
    \/ \E s \in 1..MaxScopes, x \in ExoticChoices, k \in Keys : TopRead(s, x, k)
    \/ FactoryRead
    \/ FactoryReturn
    \/ FactoryThrow
    \/ Unwind

Spec == Init /\ [][Next]_vars

\* Two providers created from one registry object.
ProviderRegistries ==
    { MkRegistry(lt, ShapeChain, AllOk) :
        lt \in { Lt("singleton", "singleton", "singleton"),
                 Lt("singleton", "scoped", "transient") } }
    \cup
    { MkRegistry(Lt("singleton", "singleton", "singleton"), ShapeLine,
                 [AllOk EXCEPT !["a"] = o]) : o \in {"undef", "throw"} }

InitProviders == InitWith(ProviderRegistries, Providers, MaxReads)

SpecProviders == InitProviders /\ [][Next]_vars

\* The mixed-lifetime fixture of src/test.ts: singleton a, scoped b, transient c.
Mixed == MkRegistry(Lt("singleton", "scoped", "transient"), ShapeChain, AllOk)

\* The same services when the constructor of A throws.
MixedThrowing ==
    MkRegistry(Lt("singleton", "scoped", "transient"), ShapeChain,
               [AllOk EXCEPT !["a"] = "throw"])

InitMixed == InitWith({Mixed, MixedThrowing}, {"p1"}, MixedReads)

SpecMixed == InitMixed /\ [][Next]_vars

\* ----------------------------------------------------------------- contexts

\* The fixture when A reads the reserved name and B a property of Object.prototype.
ShapeThen == [a |-> <<Reserved>>, b |-> <<"a", "toString">>, c |-> <<"a", "b">>]

\* The mixed fixture with these reads and one more service, registered under
\* the reserved name.
ThenRegistry ==
    [n \in Names \cup {Reserved} |->
        IF n = Reserved THEN Descriptor("singleton", <<>>, "ok")
        ELSE Descriptor(Lt("singleton", "scoped", "transient")[n], ShapeThen[n], "ok")]

ContextRegistries == {ThenRegistry, MixedThrowing}

(* Exotic contexts: none, an object literal that holds a and the reserved   *)
(* name, and null.                                                          *)
ContextExotics ==
    {NoExotic, Exotic([k \in {"a", Reserved} |-> ExoticValue]), ExoticNull}

\* The property keys read on a context: names, the reserved name, a symbol.
ContextKeys == {"a", "c", Reserved} \cup Symbols

(* The names resolve is called with directly: a name that is registered and *)
(* in an exotic context, the reserved name, a symbol.                       *)
DirectNames == {"a", Reserved} \cup Symbols

\* ServiceScope.createContext(exoticContext): a Proxy over the scope; nothing
\* of the provider or the scope changes.
CreateContext(s, x) ==
    /\ Idle
    /\ s \in 1..Len(scopes)
    /\ context' = [scope |-> s, exotic |-> x, direct |-> context.direct]
    /\ UNCHANGED <<registry, builder, spread, providers, retainedSingleton, scopes, frames,
                   busy, exc, thrown, message, result, nextId, nreads, budget, stats, returned,
                   tainted>>

\* ServiceProvider.begin: beginScope().createContext()
Begin(p) ==
    /\ Idle
    /\ builder.built
    /\ p \in providers
    /\ Len(scopes) < MaxScopes
    /\ scopes' = Append(scopes, NewScope(p))
    /\ stats' = Append(stats, NoStats)
    /\ returned' = Append(returned, [n \in Names |-> {}])
    /\ context' = [scope |-> Len(scopes) + 1, exotic |-> NoExotic, direct |-> context.direct]
    /\ UNCHANGED <<registry, builder, spread, providers, retainedSingleton, frames, busy,
                   exc, thrown, message, result, nextId, nreads, budget, tainted>>

\* The top-level caller reads property key of the context it holds.
ReadContext(key) ==
    /\ context.scope # 0
    /\ TopRead(context.scope, context.exotic, key)

\* The top-level caller calls resolve of the scope of the context it holds.
ResolveContext(name) ==
    /\ context.scope # 0
    /\ ResolveDirect(context.scope, context.exotic, name)

(* The own property keys of a context: those of the Proxy's target, the      *)
(* empty object literal, since the handler has a get trap only.             *)
OwnKeys(reg, exotic) == {}

(* The top-level caller spreads the context it holds into an object literal: *)
(* one entry per own enumerable key, each read through the get trap.  With  *)
(* no own key no property is read, and the spread is one step.              *)
SpreadContext ==
    /\ Idle
    /\ context.scope # 0
    /\ OwnKeys(registry, context.exotic) = {}
    /\ spread' = [done |-> TRUE,
                  entries |-> [k \in OwnKeys(registry, context.exotic) |-> Undefined]]
    /\ UNCHANGED <<registry, builder, providers, retainedSingleton, scopes, context, frames,
                   busy, exc, thrown, message, result, nextId, nreads, budget, stats, returned,
                   tainted>>

InitContext == InitWith(ContextRegistries, {"p1"}, MaxReads)

NextContext ==
    \/ \E p \in Providers : BeginScope(p)
    \/ \E p \in Providers : Begin(p)
    \/ \E s \in 1..MaxScopes, x \in ContextExotics : CreateContext(s, x)
    \/ \E k \in ContextKeys : ReadContext(k)
    \/ \E k \in DirectNames : ResolveContext(k)
    \/ SpreadContext
    \/ FactoryRead
    \/ FactoryReturn
    \/ FactoryThrow
    \/ Unwind

SpecContext == InitContext /\ [][NextContext]_vars

\* ----------------------------------------------------------- exotic contexts

(* What createContext is called with: nothing, an object literal that holds  *)
(* a and z, one that holds the reserved name, an object without prototype    *)
(* that holds a, and null.                                                   *)
ExoticArguments ==
    { NoExotic,
      Exotic([k \in {"a", "z"} |-> ExoticValue]),
      Exotic([k \in {Reserved} |-> ExoticValue]),
      ExoticBare([k \in {"a"} |-> ExoticValue]),
      ExoticNull }

\* The string keys read: names, an unregistered name, the reserved name, and a
\* property of Object.prototype.
ExoticKeys == Keys \cup {Reserved, "toString"}

(* The fixture whose factories read the reserved name and a property of     *)
(* Object.prototype, singletons of which c reads an unregistered name, and  *)
(* the mixed fixture with a factory that throws.                            *)
ExoticRegistries ==
    { ThenRegistry,
      MkRegistry(Lt("singleton", "singleton", "singleton"), ShapeSelf, AllOk),
      MixedThrowing }

InitExotic == InitWith(ExoticRegistries, {"p1"}, MaxReads)

NextExotic ==
    \/ \E p \in Providers : BeginScope(p)
    \/ \E s \in 1..MaxScopes, x \in ExoticArguments, k \in ExoticKeys : TopRead(s, x, k)
    \/ FactoryRead
    \/ FactoryReturn
    \/ FactoryThrow
    \/ Unwind

SpecExotic == InitExotic /\ [][NextExotic]_vars

\* ------------------------------------------------------------- registration

\* Map.prototype.set and the order of keys(): a new key goes last, a key the
\* Map holds keeps its place.
KeysAfterSet_MoveToEnd(names, name) ==
    Append(SelectSeq(names, LAMBDA n : n # name), name)

KeysAfterSet(names, name) ==
    IF \E i \in 1..Len(names) : names[i] = name THEN names ELSE Append(names, name)

\* What the builder is called with: a name, a lifetime and a factory.
AddInputs ==
    { Call("a", Descriptor("singleton", <<>>, "ok")),
      Call("a", Descriptor("transient", <<>>, "throw")),
      Call("b", Descriptor("scoped", <<"a">>, "ok")),
      Call("b", Descriptor("singleton", <<>>, "ok")),
      Call("c", Descriptor("transient", <<"a", "b">>, "ok")) }

(* addSingleton / addScoped / addTransient, that is #add: the descriptor is  *)
(* set in #descriptors.  build() has returned that very Map to the registry, *)
(* so a call made after it, on a builder the build function kept, sets the  *)
(* descriptor in the Map the registry reads.                                *)
Add(c) ==
    /\ Idle
    /\ Len(builder.calls) < MaxAdds
    /\ registry' = MapSet(registry, c.name, c.descriptor)
    /\ builder' = [builder EXCEPT !.names = KeysAfterSet(@, c.name),
                                  !.calls = Append(@, c)]
    /\ UNCHANGED <<spread, providers, retainedSingleton, scopes, context, frames, busy,
                   exc, thrown, message, result, nextId, nreads, budget, stats, returned, tainted>>

\* ServiceRegistryBuilder.build, at the end of the constructor of ServiceRegistry.
Build ==
    /\ Idle
    /\ ~builder.built
    /\ builder' = [builder EXCEPT
                      !.built = TRUE,
                      !.frozen = [registry |-> freeze(registry), names |-> builder.names]]
    /\ UNCHANGED <<registry, spread, providers, retainedSingleton, scopes, context, frames,
                   busy, exc, thrown, message, result, nextId, nreads, budget, stats, returned,
                   tainted>>

\* ServiceRegistry.names: the keys of #descriptors, in the order of the Map.
RegistryNames == builder.names

\* A builder, the registry built from it and one provider created from that.
InitRegistry ==
    /\ registry = EmptyMap
    /\ builder = NewBuilder
    /\ spread = NoSpread
    /\ providers = {"p1"}
    /\ budget = 1
    /\ retainedSingleton = [p \in providers |-> EmptyMap]
    /\ scopes = <<>>
    /\ context = NoContext
    /\ frames = <<>>
    /\ busy = FALSE
    /\ exc = NoError
    /\ thrown = NoError
    /\ message = NoMessage
    /\ result = NoResult
    /\ nextId = 1
    /\ nreads = 0
    /\ stats = <<>>
    /\ returned = <<>>
    /\ tainted = {}

NextRegistry ==
    \/ \E c \in AddInputs : Add(c)
    \/ Build
    \/ Next

SpecRegistry == InitRegistry /\ [][NextRegistry]_vars


\* ------------------------------------------------------- re-entrant factories

(* A factory is free to hold the context of another scope of its provider.  *)
(* The factories here are of the form                                        *)
(*     ctx => ctx === other ? new A() : (other.name, own reads of ctx ...)   *)
(* where other is a context of scope t: constructing a singleton through     *)
(* the context of one scope first reads the same name through other.  That   *)
(* read is a call of resolve of scope t inside the factory: the path of t    *)
(* does not hold the name, the singleton cache does not either (the read is  *)
(* the factory's first), so the name is pushed on the path of t and          *)
(* create(other) is called.  While that call runs the path of t holds the    *)
(* name; when it returns, the path of t is popped and the object is set in   *)
(* the provider's singleton cache, which the scopes of a provider share.     *)
ForeignRead(t) ==
    /\ Running
    /\ t \in 1..Len(scopes)
    /\ ~TopFrame.foreign
    /\ ~TopFrame.pre
    /\ t # TopFrame.scope
    /\ scopes[t].provider = scopes[TopFrame.scope].provider
    /\ registry[TopFrame.name].lifetime = "singleton"
    /\ Pc(TopFrame) = 1
    /\ LET name == TopFrame.name
           p == scopes[t].provider
           r == resolve(registry, retainedSingleton[p], scopes[t].retainedScoped,
                        scopes[t].path, name)
       IN  /\ r.kind = "call"
           /\ scopes' = [scopes EXCEPT ![t].path = PathPush(@, name)]
           /\ frames' = Append(frames, NewFrame(name, t, TRUE))
           /\ stats' = [stats EXCEPT
                  ![t] = Bump(Bump(Bump(@, "reads", name), "resolves", name), "called", name)]
    /\ UNCHANGED <<registry, builder, spread, providers, retainedSingleton, context, busy, exc,
                   thrown, message, result, nextId, nreads, budget, returned, tainted>>

\* Singletons only, a reading itself after it was constructed through the
\* other scope; and the mixed fixture with a factory that throws.
ReentrantRegistries ==
    { MkRegistry(Lt("singleton", "singleton", "singleton"), ShapeSelf, AllOk),
      MixedThrowing }

InitReentrant == InitWith(ReentrantRegistries, {"p1"}, MaxReads)

NextReentrant ==
    \/ \E t \in 1..MaxScopes : ForeignRead(t)
    \/ Next

SpecReentrant == InitReentrant /\ [][NextReentrant]_vars

\* ---------------------------------------------------------------- scope names

\* What the caller assigns to the field name of a scope.
ScopeNames == {UndefinedName, Str("scope")}

\* scope.name = v, on a scope that beginScope has returned.
SetName(s, v) ==
    /\ Idle
    /\ s \in 1..Len(scopes)
    /\ scopes[s].name # v
    /\ scopes' = [scopes EXCEPT ![s].name = v]
    /\ UNCHANGED <<registry, builder, spread, providers, retainedSingleton, context, frames,
                   busy, exc, thrown, message, result, nextId, nreads, budget, stats,
                   returned, tainted>>

(* Registries whose reads end in both kinds of trace: the cycle through all *)
(* names, the line in which two singletons are above the scoped service,    *)
(* and the mixed fixture with a factory that throws.                        *)
TraceRegistries ==
    { MkRegistry(lt, ShapeCycle3, AllOk) : lt \in SomeLifetimes }
    \cup
    { MkRegistry(Lt("scoped", "singleton", "singleton"), ShapeLine, AllOk),
      MixedThrowing }

InitTrace == InitWith(TraceRegistries, {"p1"}, MaxReads)

NextTrace ==
    \/ \E s \in 1..MaxScopes, v \in ScopeNames : SetName(s, v)
    \/ Next

SpecTrace == InitTrace /\ [][NextTrace]_vars

\* ---------------------------------------------------------------- termination

(* A property read is one synchronous call: once it has started, the         *)
(* factories it runs go on reading, returning or throwing, and an exception  *)
(* goes on up the calls, until the read has ended.  Only the top-level       *)
(* caller is free to stop between two reads.                                 *)
ReadStep == FactoryRead \/ FactoryReturn \/ FactoryThrow \/ Unwind

(* The registries with the deepest and the cyclic dependencies: the cyclic   *)
(* registries, and the line c -> b -> a with one lifetime for all names     *)
(* and an innermost factory that returns an object, undefined, or throws.   *)
StackRegistries ==
    { MkRegistry(lt, sh, AllOk) :
        lt \in SomeLifetimes, sh \in {ShapeSelf, ShapeCycle2, ShapeCycle3} }
    \cup
    { MkRegistry(Lt(l, l, l), ShapeLine, [AllOk EXCEPT !["a"] = o]) :
        l \in Lifetimes, o \in Outcomes }

InitStack == InitWith(StackRegistries, {"p1"}, MaxReads)

SpecFair == InitStack /\ [][Next]_vars /\ WF_vars(ReadStep)

\* --------------------------------------------------------------- properties

ScopeIds == 1..Len(scopes)

ScopesOf(p) == {s \in ScopeIds : scopes[s].provider = p}

IsLifetime(n, lifetime) == registry[n].lifetime = lifetime

Range(q) == {q[i] : i \in 1..Len(q)}

\* A counter of stats, added up over the scopes of S.
RECURSIVE SumStat(_, _, _)
SumStat(field, n, S) ==
    IF S = {} THEN 0
    ELSE LET s == CHOOSE x \in S : TRUE
         IN  stats[s][field][n] + SumStat(field, n, S \ {s})

\* The value a cache holds for n, as a set: empty when it holds none but undefined.
Held(cache, n) == IF CacheHit(cache, n) THEN {MapGet(cache, n)} ELSE {}

\* The values the running factories have read for n from the scope.
ValsRead(n) ==
    IF InExotic(context.exotic, n) THEN {}
    ELSE UNION { { frames[i].vals[j] :
                     j \in {k \in 1..Len(frames[i].vals) :
                               FrameDeps(frames[i])[k] = n} } :
                 i \in 1..Len(frames) }

\* The value the last top-level read returned for n from the scope.
TopValue(n) ==
    IF result.kind = "value" /\ result.key = n /\ ~InExotic(context.exotic, n)
    THEN {result.value} ELSE {}

\* Every value that reads of n through scope s have returned.
Seen(s, n) ==
    returned[s][n] \cup (IF context.scope = s THEN ValsRead(n) \cup TopValue(n) ELSE {})

\* The resolution stack of every scope is empty.
PathsEmpty == \A s \in ScopeIds : scopes[s].path = <<>>

\* A top-level read has finished and nothing is running.
Finished == Idle /\ result.kind # "none"

\* No read so far was answered by an exotic context: every read reached resolve.
NoShadowedReads ==
    \A s \in ScopeIds, n \in Names : stats[s].reads[n] = stats[s].resolves[n]

\* The registered names the factory of n reads.
DepsOf(n) == Range(registry[n].deps) \cap DOMAIN registry

DepsOfAll(S) == UNION {DepsOf(m) : m \in S}

RECURSIVE Grow(_)
Grow(S) == LET T == S \cup DepsOfAll(S) IN IF T = S THEN S ELSE Grow(T)

\* The names n depends on, directly or through other services.
ReachPlus(n) == Grow(DepsOf(n))

ReachStar(n) == {n} \cup ReachPlus(n)

\* n is on a dependency cycle (of length 1 when it reads itself).
OnCycle(n) == n \in ReachPlus(n)

\* Constructing n enters a dependency cycle.
EntersCycle(n) == \E m \in ReachStar(n) : OnCycle(m)

\* Constructing n makes no singleton depend on a scoped service.
LifetimeSafe(n) ==
    \A m \in ReachStar(n) :
        IsLifetime(m, "singleton") => \A k \in ReachPlus(m) : ~IsLifetime(k, "scoped")

\* The factories that throw among those constructing n runs.
Throwing(n) == {m \in ReachStar(n) : registry[m].outcome = "throw"}

\* Constructing n reads registered names only.
AllRegistered(n) == \A m \in ReachStar(n) : Range(registry[m].deps) \subseteq DOMAIN registry

\* Nothing stands in the way of constructing n.
Healthy(n) ==
    /\ AllRegistered(n)
    /\ Throwing(n) = {}
    /\ ~EntersCycle(n)
    /\ LifetimeSafe(n)

(* C1: singleton uniqueness.  Once reads of a singleton name through the    *)
(* scopes of a provider have returned, exactly one execution of its factory *)
(* has completed in total, and all the reads have returned one and the same *)
(* instance.                                                                *)
C1_SingletonExactlyOnce ==
    \A p \in providers, n \in Names :
        LET S == ScopesOf(p)
            seen == UNION {Seen(s, n) : s \in S}
        IN  (IsLifetime(n, "singleton") /\ Idle /\ seen # {})
            => /\ SumStat("called", n, S) - SumStat("failed", n, S) = 1
               /\ Cardinality(seen) = 1

(* C2: scoped uniqueness.  Once reads of a scoped name in a scope have      *)
(* returned, exactly one execution of its factory has completed in that     *)
(* scope, all reads in the scope have returned one and the same instance,   *)
(* and no other scope has returned or holds that instance.                  *)
C2_ScopedExactlyOnce ==
    \A s \in ScopeIds, n \in Names :
        (IsLifetime(n, "scoped") /\ Idle /\ Seen(s, n) # {})
        => /\ stats[s].called[n] - stats[s].failed[n] = 1
           /\ Cardinality(Seen(s, n)) = 1
           /\ \A t \in ScopeIds \ {s} :
                Seen(s, n) \cap (Seen(t, n) \cup Held(scopes[t].retainedScoped, n)) = {}

\* The registry of the tests with every service transient.
AllTransient ==
    MkRegistry(Lt("transient", "transient", "transient"), ShapeChain, AllOk)

(* C3 as stated: transient freshness.  The factory of a transient name has  *)
(* been executed as many times as the name has been read from the scope.    *)
C3_TransientPerRead ==
    \A s \in ScopeIds, n \in Names :
        IsLifetime(n, "transient") => stats[s].called[n] = stats[s].resolves[n]

(* C3 as amended: every read of a transient name that reaches the scope and *)
(* is not rejected as circular executes the factory once, and no cache ever *)
(* holds the name; in the all-transient chain one read of c executes a's    *)
(* factory twice, b's once and c's once.                                    *)
C3_TransientFreshness ==
    /\ \A s \in ScopeIds, n \in Names :
         IsLifetime(n, "transient") =>
            /\ stats[s].called[n] = stats[s].resolves[n] - stats[s].circular[n]
            /\ n \notin DOMAIN scopes[s].retainedScoped
            /\ n \notin DOMAIN retainedSingleton[scopes[s].provider]
    /\ ( /\ registry = AllTransient
         /\ Idle
         /\ nreads = 1
         /\ result.key = "c"
         /\ ~context.exotic.given )
       => stats[context.scope].called = [a |-> 2, b |-> 1, c |-> 1]

\* C3: one read of c in the all-transient chain has completed.
C3_Witness ==
    /\ registry = AllTransient
    /\ Idle
    /\ nreads = 1
    /\ result.kind = "value"
    /\ result.key = "c"
    /\ ~context.exotic.given
    /\ stats[context.scope].called = [a |-> 2, b |-> 1, c |-> 1]

\* Frame i runs inside the construction of a singleton (or is one).
UnderSingleton(i) == \E k \in 1..i : IsLifetime(frames[k].name, "singleton")

(* C4: lifetime-escalation rejection.  No factory running inside the        *)
(* construction of a singleton obtains a value by reading a scoped name     *)
(* from the scope, and no singleton cache holds an instance whose           *)
(* construction obtained a scoped instance, directly or through others.     *)
C4_LifetimeEscalationRejected ==
    /\ \A i \in 1..Len(frames) :
         UnderSingleton(i) =>
            \A j \in 1..Len(frames[i].vals) :
                LET dep == FrameDeps(frames[i])[j]
                IN  ~( /\ dep \in DOMAIN registry
                       /\ IsLifetime(dep, "scoped")
                       /\ ~InExotic(context.exotic, dep) )
    /\ \A p \in providers :
         \A n \in DOMAIN retainedSingleton[p] : retainedSingleton[p][n] \notin tainted

(* C5: circular-path detection.  No name is twice on a resolution stack, so *)
(* no resolution recurses without end; the stacks are empty whenever no     *)
(* read is running; while no exotic context has answered a read, a read of  *)
(* a name whose construction enters a dependency cycle ends with a          *)
(* ResolveError; and a read of a name that nothing stands in the way of     *)
(* returns a value, also after reads that failed.                           *)
C5_CircularPathDetection ==
    /\ \A s \in ScopeIds : Cardinality(Range(scopes[s].path)) = Len(scopes[s].path)
    /\ Len(frames) <= Cardinality(DOMAIN registry)
    /\ Idle => PathsEmpty
    /\ ( /\ Finished
         /\ NoShadowedReads
         /\ result.key \in DOMAIN registry
         /\ EntersCycle(result.key) )
       => /\ result.kind = "error"
          /\ result.error.name = "ResolveError"
          /\ result.error.kind \in {"circular", "lifetime"}
    /\ ( /\ Finished
         /\ result.key \in DOMAIN registry
         /\ ~InExotic(context.exotic, result.key)
         /\ Healthy(result.key) )
       => result.kind = "value"

(* C5: a read in a scope was rejected as circular, and the next read in the *)
(* same scope, of a service outside the cycle, has returned an instance.    *)
C5_Witness ==
    /\ Finished
    /\ nreads = 2
    /\ PathsEmpty
    /\ \E n \in Names : OnCycle(n) /\ stats[context.scope].circular[n] = 1
    /\ result.kind = "value"
    /\ result.key \in Names
    /\ ~OnCycle(result.key)
    /\ ~context.exotic.given
    /\ result.value # Undefined

(* C6: factory exceptions.  An exception in flight is the exception as it   *)
(* was thrown, and it is what the top-level read ends with; a factory       *)
(* exception comes from a factory that throws; the stacks are empty         *)
(* whenever no read is running; only names on a dependency cycle are ever   *)
(* rejected as circular; and every read whose construction runs a throwing  *)
(* factory ends with that factory's exception, also after reads that        *)
(* failed.                                                                  *)
C6_FactoryExceptions ==
    /\ exc # NoError => exc = thrown
    /\ (Idle /\ result.kind = "error") => result.error = thrown
    /\ thrown.kind = "factory" => registry[thrown.at].outcome = "throw"
    /\ Idle => PathsEmpty
    /\ \A s \in ScopeIds, n \in Names : stats[s].circular[n] > 0 => OnCycle(n)
    /\ ( /\ Finished
         /\ NoShadowedReads
         /\ result.key \in DOMAIN registry
         /\ Throwing(result.key) # {}
         /\ AllRegistered(result.key)
         /\ ~EntersCycle(result.key)
         /\ LifetimeSafe(result.key) )
       => /\ result.kind = "error"
          /\ \E m \in Throwing(result.key) : result.error = FactoryError(m)

(* C6: c, whose factory reads b, whose factory reads a, whose factory       *)
(* throws, was read twice in one scope; both reads ended with a's exception *)
(* and nothing was rejected as circular.                                    *)
C6_Witness ==
    /\ Finished
    /\ nreads = 2
    /\ result = Thrown("c", FactoryError("a"))
    /\ registry["c"].deps = <<"b">>
    /\ stats[context.scope].failed = [a |-> 2, b |-> 2, c |-> 2]
    /\ stats[context.scope].circular = Zero
    /\ PathsEmpty

(* C7: mixed-lifetime chain, order independence.  With a singleton, b       *)
(* scoped reading a, c transient reading a and b, and reads answered by the *)
(* scopes only: whatever reads were made and in whatever order, a's factory *)
(* has run once for the provider as soon as anything was read, b's factory  *)
(* once in every scope in which b or c was read, and c's factory once per   *)
(* read of c.                                                               *)
C7_MixedChainCounts ==
    ( /\ registry = Mixed
      /\ Idle
      /\ NoShadowedReads )
    => \A p \in providers :
         LET S == ScopesOf(p)
             any == \E s \in S, n \in Names : stats[s].resolves[n] > 0
         IN  /\ SumStat("called", "a", S) = IF any THEN 1 ELSE 0
             /\ \A s \in S :
                  /\ stats[s].called["b"] =
                        IF stats[s].resolves["b"] + stats[s].resolves["c"] > 0
                        THEN 1 ELSE 0
                  /\ stats[s].called["c"] = stats[s].resolves["c"]

(* C7: a, b and c were each read once by the caller in one scope, and each  *)
(* factory has run once.                                                    *)
C7_Witness ==
    /\ registry = Mixed
    /\ Idle
    /\ NoShadowedReads
    /\ nreads = 3
    /\ \E s \in ScopeIds :
         /\ stats[s].reads = [a |-> 3, b |-> 2, c |-> 1]
         /\ stats[s].called = [a |-> 1, b |-> 1, c |-> 1]

\* The exotic context holds key as an entry of its own.
OwnEntry(exotic, key) == exotic.given /\ exotic.object /\ key \in DOMAIN exotic.map

(* The get trap answers a read of key from the exotic context: key is a     *)
(* string other than the reserved name and the in operator finds it.        *)
Shadowed(exotic, key) == IsString(key) /\ key # Reserved /\ InExotic(exotic, key)

\* The name the executing factory reads next is answered by the exotic context.
NextReadShadowed ==
    /\ Running
    /\ Pc(TopFrame) <= Len(FrameDeps(TopFrame))
    /\ IsString(FrameDeps(TopFrame)[Pc(TopFrame)])
    /\ FrameDeps(TopFrame)[Pc(TopFrame)] # Reserved
    /\ InExotic(context.exotic, FrameDeps(TopFrame)[Pc(TopFrame)])

\* Nothing of the scopes, the caches and the factories' executions changes.
ScopesUntouched ==
    /\ UNCHANGED <<scopes, retainedSingleton, nextId>>
    /\ \A s \in ScopeIds : stats'[s].called = stats[s].called

\* While a read through a context runs, no name that its exotic context
\* answers is under construction, and its factories have read the exotic values.
ExoticShadows ==
    /\ \A i \in 1..Len(frames) :
         /\ ~Shadowed(context.exotic, frames[i].name)
         /\ \A j \in 1..Len(frames[i].vals) :
              LET dep == FrameDeps(frames[i])[j]
              IN  Shadowed(context.exotic, dep)
                  => frames[i].vals[j] = ExoticGet(context.exotic, dep)
    /\ \A s \in ScopeIds :
         (busy /\ context.scope = s) =>
            \A i \in 1..Len(scopes[s].path) : ~Shadowed(context.exotic, scopes[s].path[i])
    /\ (Finished /\ ~context.direct /\ Shadowed(context.exotic, result.key))
       => result = Value(result.key, ExoticGet(context.exotic, result.key))

\* A read of a name the exotic context answers, by the caller or by a factory,
\* returns at once and leaves the scopes untouched.
ExoticReadStep ==
    /\ (Idle /\ nreads' = nreads + 1 /\ Shadowed(context'.exotic, result'.key))
       => /\ ScopesUntouched
          /\ frames' = <<>>
          /\ Idle'
    /\ NextReadShadowed
       => /\ ScopesUntouched
          /\ frames' = [frames EXCEPT ![Len(frames)].vals =
                            Append(@, ExoticGet(context.exotic,
                                FrameDeps(TopFrame)[Pc(TopFrame)]))]

(* C8: exotic override precedence, as the claim states it.  Every read of a *)
(* name that the exotic mapping of the context contains returns the value   *)
(* the mapping holds under that name.                                       *)
C8_EveryNameOfMapping ==
    (Finished /\ ~context.direct /\ OwnEntry(context.exotic, result.key))
    => result = Value(result.key, context.exotic.map[result.key])

(* C8: exotic override precedence.  A read of a name other than the         *)
(* reserved name that the context's exotic mapping contains (or that the    *)
(* exotic object inherits), made by the caller or by a factory at any       *)
(* depth under a read through that context, returns the mapping's value,    *)
(* runs no factory for the name and leaves caches and stacks as they were.  *)
C8_ExoticOverridePrecedence == []ExoticShadows /\ [][ExoticReadStep]_vars

(* C8: b was read through a context whose exotic mapping holds a; b's       *)
(* factory read a and got the mapping's value; a's factory never ran and no *)
(* cache holds a.                                                           *)
C8_Witness ==
    /\ Finished
    /\ OwnEntry(context.exotic, "a")
    /\ result.kind = "value"
    /\ result.key = "b"
    /\ result.value # Undefined
    /\ registry["a"].lifetime = "singleton"
    /\ registry["b"].deps = <<"a">>
    /\ stats[context.scope].reads["a"] = 1
    /\ \A s \in ScopeIds : stats[s].called["a"] = 0
    /\ \A p \in providers : "a" \notin DOMAIN retainedSingleton[p]

\* No instance is held by the singleton caches of two providers, and a
\* provider that holds or has resolved a singleton has run its factory itself.
ProvidersDisjoint ==
    /\ \A p \in providers, q \in providers :
         p # q =>
            \A n \in DOMAIN retainedSingleton[p], m \in DOMAIN retainedSingleton[q] :
                retainedSingleton[p][n] # Undefined
                => retainedSingleton[p][n] # retainedSingleton[q][m]
    /\ \A p \in providers, n \in Names :
         ( /\ IsLifetime(n, "singleton")
           /\ \/ n \in DOMAIN retainedSingleton[p]
              \/ SumStat("resolves", n, ScopesOf(p)) > 0 )
         => SumStat("called", n, ScopesOf(p)) > 0

\* A provider's singleton cache changes only under a read through one of its
\* own scopes.
OnlyOwnReads ==
    \A q \in providers :
        retainedSingleton'[q] # retainedSingleton[q]
        => busy /\ scopes[context.scope].provider = q

(* C9: provider independence.  Two providers created from one registry      *)
(* never hold the same singleton instance; a read through one provider      *)
(* leaves the singleton cache of the other unchanged; and each provider     *)
(* runs the factory of a singleton itself when it first reads it.           *)
C9_ProviderIndependence == []ProvidersDisjoint /\ [][OnlyOwnReads]_vars

(* C9: both providers have read the singleton a; each ran a's factory once  *)
(* and each holds its own instance.                                         *)
C9_Witness ==
    /\ Idle
    /\ providers = {"p1", "p2"}
    /\ IsLifetime("a", "singleton")
    /\ CacheHit(retainedSingleton["p1"], "a")
    /\ CacheHit(retainedSingleton["p2"], "a")
    /\ retainedSingleton["p1"]["a"] # retainedSingleton["p2"]["a"]
    /\ SumStat("called", "a", ScopesOf("p1")) = 1
    /\ SumStat("called", "a", ScopesOf("p2")) = 1

\* The keys read that the registry does not register, the reserved name aside.
Unregistered == (ExoticKeys \ {Reserved}) \ DOMAIN registry

(* C10: unregistered name.  Registry.get of an absent name fails with a     *)
(* ResolveError; an absent name is never on a stack, under construction or  *)
(* in a cache; no factory and no caller obtains a value for an absent name  *)
(* that the exotic mapping does not contain; a read of such a name, by the  *)
(* caller or by the factory of the name read, ends with the ResolveError    *)
(* for it; and the stacks are empty once the error has reached the caller.  *)
(* The contexts are those created with a mapping or with none.              *)
C10_UnregisteredName ==
    /\ \A k \in Unregistered :
         /\ ~RegistryGet(registry, k).ok
         /\ RegistryGet(registry, k).error.name = "ResolveError"
         /\ \A s \in ScopeIds :
              /\ k \notin Range(scopes[s].path)
              /\ k \notin DOMAIN scopes[s].retainedScoped
         /\ \A p \in providers : k \notin DOMAIN retainedSingleton[p]
         /\ \A i \in 1..Len(frames) : frames[i].name # k
    /\ \A i \in 1..Len(frames) :
         \A j \in 1..Len(frames[i].vals) :
            LET dep == FrameDeps(frames[i])[j]
            IN  dep \in DOMAIN registry \/ dep = Reserved
                    \/ OwnEntry(context.exotic, dep)
    /\ ( /\ Finished
         /\ ~context.direct
         /\ ~InThrows(context.exotic)
         /\ result.key \in Unregistered
         /\ ~OwnEntry(context.exotic, result.key) )
       => result = Thrown(result.key, ResolveError("invalid name", result.key))
    /\ ( /\ Finished
         /\ ~context.direct
         /\ ~InThrows(context.exotic)
         /\ result.key \in DOMAIN registry
         /\ result.key # Reserved
         /\ ~OwnEntry(context.exotic, result.key)
         /\ IsLifetime(result.key, "transient")
         /\ Len(registry[result.key].deps) > 0
         /\ registry[result.key].deps[1] \in Unregistered
         /\ ~OwnEntry(context.exotic, registry[result.key].deps[1]) )
       => result = Thrown(result.key,
                          ResolveError("invalid name", registry[result.key].deps[1]))
    /\ (Idle /\ result.kind = "error" /\ result.error.kind = "invalid name")
       => /\ result.error.name = "ResolveError"
          /\ result.error.at \in Unregistered
          /\ PathsEmpty

(* C11: non-string key.  A read of a context property whose key is not a    *)
(* string ends with an error named ResolveError, runs no factory and leaves *)
(* the stacks empty.                                                        *)
C11_NonStringKey ==
    (Finished /\ ~context.direct /\ ~IsString(result.key))
    => /\ result.kind = "error"
       /\ result.error.name = "ResolveError"
       /\ frames = <<>>
       /\ PathsEmpty

\* The caches of scope s and the counts of its factories' executions.
ScopeCaches(s) == <<scopes[s].retainedScoped, scopes[s].path, stats[s].called>>

\* No factory was executed and no cache holds anything.
NothingConstructed ==
    /\ nextId = 1
    /\ frames = <<>>
    /\ tainted = {}
    /\ \A p \in providers : retainedSingleton[p] = EmptyMap
    /\ \A s \in ScopeIds : ScopeCaches(s) = <<EmptyMap, <<>>, Zero>>

\* Until the first property read nothing is constructed.
LazyUntilRead == nreads = 0 => NothingConstructed

(* The factories that are executing were called during a property read:     *)
(* they are those of the name the caller read and of the names that the     *)
(* executing factories are reading.                                         *)
OnlyWhatIsRead ==
    /\ Idle => frames = <<>>
    /\ frames # <<>> => (~context.direct /\ frames[1].name = result.key)
    /\ \A i \in 1..(Len(frames) - 1) :
         /\ Pc(frames[i]) <= Len(FrameDeps(frames[i]))
         /\ frames[i + 1].name = FrameDeps(frames[i])[Pc(frames[i])]

(* C12: laziness.  createProvider, beginScope, begin and createContext      *)
(* execute no factory: until the first property read nothing is constructed *)
(* or cached; a factory is executing only during a property read on a       *)
(* context, and the factories executing during a read are that of the name  *)
(* read and those of the names the executing factories read.                *)
C12_Laziness ==
    /\ LazyUntilRead
    /\ OnlyWhatIsRead

(* C13: spreadable context.  The mapping obtained by spreading a context    *)
(* has one entry for each registered service name.                          *)
C13_SpreadableContext ==
    spread.done => DOMAIN spread.entries = DOMAIN registry

(* What was read under the reserved name, by the caller or by a factory,    *)
(* is undefined, and no factory runs for the reserved name during a         *)
(* property read.                                                           *)
ReservedIsUndefined ==
    /\ \A i \in 1..Len(frames) :
         /\ ~context.direct => frames[i].name # Reserved
         /\ \A j \in 1..Len(frames[i].vals) :
              FrameDeps(frames[i])[j] = Reserved => frames[i].vals[j] = Undefined
    /\ (Finished /\ ~context.direct /\ result.key = Reserved)
       => result = Value(Reserved, Undefined)

\* A read of the reserved name by the caller returns at once and changes nothing
\* of the provider, the scopes or the factories.
ReservedReadStep ==
    (Idle /\ nreads' = nreads + 1 /\ result'.key = Reserved)
    => /\ UNCHANGED <<registry, builder, retainedSingleton, scopes, frames, nextId, stats,
                      returned, tainted, exc>>
       /\ result' = Value(Reserved, Undefined)
       /\ Idle'

\* The executing factory reads the reserved name next.
NextReadReserved ==
    /\ Running
    /\ Pc(TopFrame) <= Len(FrameDeps(TopFrame))
    /\ FrameDeps(TopFrame)[Pc(TopFrame)] = Reserved

\* A read of the reserved name by a factory gives it undefined and changes
\* nothing else.
ReservedNestedStep ==
    NextReadReserved
    => /\ frames' = [frames EXCEPT ![Len(frames)].vals = Append(@, Undefined)]
       /\ UNCHANGED <<registry, builder, retainedSingleton, scopes, nextId, stats,
                      returned, tainted, exc, result, busy>>

(* C14: reserved name.  A read of the property "then" on any context, by    *)
(* the caller or by a factory, returns undefined, executes no factory and   *)
(* changes no state, also when a service is registered under "then" or the  *)
(* exotic mapping holds "then".                                             *)
C14_ReservedName ==
    /\ []ReservedIsUndefined
    /\ [][ReservedReadStep]_vars
    /\ [][ReservedNestedStep]_vars

(* C14: "then" was read through a context whose exotic mapping holds "then" *)
(* on a registry that registers a service under "then", and the read        *)
(* returned undefined.                                                      *)
C14_Witness ==
    /\ Finished
    /\ ~context.direct
    /\ result = Value(Reserved, Undefined)
    /\ Reserved \in DOMAIN registry
    /\ OwnEntry(context.exotic, Reserved)
    /\ NothingConstructed

(* C15: registry immutability.  Once build() has made the registry, the     *)
(* registered names, their order and the descriptor under every name stay   *)
(* as they were built, whatever is called afterwards.                       *)
C15_RegistryImmutable ==
    builder.built
    => /\ registry = builder.frozen.registry
       /\ RegistryNames = builder.frozen.names

\* The descriptor of the last call made for name n.
LastCall(calls, n) ==
    LET last == CHOOSE i \in 1..Len(calls) :
                    /\ calls[i].name = n
                    /\ \A j \in (i + 1)..Len(calls) : calls[j].name # n
    IN  calls[last].descriptor

\* The distinct names of the calls, in the order in which they first occur.
RECURSIVE FirstSeen(_)
FirstSeen(calls) ==
    IF calls = <<>> THEN <<>>
    ELSE LET before == FirstSeen(SubSeq(calls, 1, Len(calls) - 1))
             name == calls[Len(calls)].name
         IN  IF name \in Range(before) THEN before ELSE Append(before, name)

(* C16: registration.  After any sequence of addSingleton / addScoped /      *)
(* addTransient calls the registry holds one descriptor per distinct name,  *)
(* that of the last call made for the name, and names enumerates the        *)
(* distinct names in the order in which they were first registered.         *)
C16_Registration ==
    /\ DOMAIN registry = {builder.calls[i].name : i \in 1..Len(builder.calls)}
    /\ \A n \in DOMAIN registry : registry[n] = LastCall(builder.calls, n)
    /\ RegistryNames = FirstSeen(builder.calls)
    /\ Range(RegistryNames) = DOMAIN registry
    /\ Len(RegistryNames) = Cardinality(DOMAIN registry)

(* C16: b, then a, then b again with another lifetime were registered and   *)
(* the registry was built: it holds b as registered last, and names gives b *)
(* before a.                                                                *)
C16_Witness ==
    /\ builder.built
    /\ builder.frozen = [registry |-> registry, names |-> RegistryNames]
    /\ Len(builder.calls) = 3
    /\ builder.calls[1].name = "b"
    /\ builder.calls[2].name = "a"
    /\ builder.calls[3].name = "b"
    /\ builder.calls[3].descriptor.lifetime # builder.calls[1].descriptor.lifetime
    /\ registry["b"] = builder.calls[3].descriptor
    /\ RegistryNames = <<"b", "a">>

\* A singleton is under construction.
SingletonOnStack == \E i \in 1..Len(frames) : IsLifetime(frames[i].name, "singleton")

\* The name the executing factory reads next, when it reads a registered name
\* that the exotic context does not hold.
NextResolves(d) ==
    /\ Running
    /\ Pc(TopFrame) <= Len(FrameDeps(TopFrame))
    /\ d = FrameDeps(TopFrame)[Pc(TopFrame)]
    /\ IsString(d)
    /\ d # Reserved
    /\ d \in DOMAIN registry
    /\ ~InThrows(context.exotic)
    /\ ~InExotic(context.exotic, d)

\* Nothing of the caches, the stacks and the factories' executions changes.
NothingStored ==
    /\ UNCHANGED <<scopes, retainedSingleton, nextId, tainted>>
    /\ \A s \in ScopeIds : stats'[s].called = stats[s].called

\* No scoped service is under construction above a singleton.
NoScopedAboveSingleton ==
    \A i \in 1..Len(frames), j \in 1..Len(frames) :
        (i < j /\ IsLifetime(frames[i].name, "singleton"))
        => ~IsLifetime(frames[j].name, "scoped")

\* A scoped miss under a singleton throws the lifetime error and pushes nothing.
ScopedMissStep ==
    \A d \in Names :
        ( /\ NextResolves(d)
          /\ IsLifetime(d, "scoped")
          /\ MapGet(scopes[context.scope].retainedScoped, d) = Undefined
          /\ d \notin Range(scopes[context.scope].path)
          /\ SingletonOnStack )
        => /\ exc' = ResolveError("lifetime", d)
           /\ frames' = frames
           /\ NothingStored

\* While the lifetime error goes up the stack, no cache changes.
LifetimeErrorStep ==
    exc.kind = "lifetime"
    => /\ UNCHANGED <<retainedSingleton, nextId>>
       /\ \A s \in ScopeIds : scopes'[s].retainedScoped = scopes[s].retainedScoped
       /\ Len(frames') < Len(frames)

(* C17: scoped miss under a singleton.  When a factory reads a scoped name   *)
(* that the scope's cache does not hold while a singleton is anywhere on     *)
(* the stack, resolve throws the lifetime ResolveError: the name is not      *)
(* pushed, its factory is not executed, and neither it nor a singleton       *)
(* under construction is stored, so no scoped service is ever under          *)
(* construction above a singleton.                                           *)
C17_ScopedMissUnderSingleton ==
    /\ []NoScopedAboveSingleton
    /\ [][ScopedMissStep /\ LifetimeErrorStep]_vars

(* C17: a singleton's factory read a transient name, whose factory read a    *)
(* scoped name that was not cached, and the lifetime error is in flight.     *)
C17_Witness ==
    /\ Len(frames) = 2
    /\ IsLifetime(frames[1].name, "singleton")
    /\ IsLifetime(frames[2].name, "transient")
    /\ exc.kind = "lifetime"
    /\ exc.name = "ResolveError"
    /\ IsLifetime(exc.at, "scoped")
    /\ exc.at \notin DOMAIN scopes[context.scope].retainedScoped
    /\ scopes[context.scope].path = <<frames[1].name, frames[2].name>>

\* No transient service is under construction above a singleton.
NoTransientAboveSingleton ==
    \A i \in 1..Len(frames), j \in 1..Len(frames) :
        (i < j /\ IsLifetime(frames[i].name, "singleton"))
        => ~IsLifetime(frames[j].name, "transient")

(* C18 as stated: the lifetime check applies to transient resolutions, so a  *)
(* transient name resolved while a singleton is on the stack fails with      *)
(* ResolveError before its factory is executed: no transient factory ever    *)
(* executes above a singleton, and the read that resolved it has thrown.     *)
C18_TransientUnderSingleton ==
    /\ NoTransientAboveSingleton
    /\ \A s \in ScopeIds, n \in Names :
         (IsLifetime(n, "transient") /\ SingletonOnStack /\ s = context.scope)
         => stats[s].called[n] = 0

\* A lifetime error names a scoped service, never a transient or a singleton.
LifetimeErrorsNameScoped ==
    /\ exc.kind = "lifetime" => IsLifetime(exc.at, "scoped")
    /\ thrown.kind = "lifetime" => IsLifetime(thrown.at, "scoped")

\* A transient name read under a singleton is pushed and its factory is called.
TransientUnderSingletonStep ==
    \A d \in Names :
        ( /\ NextResolves(d)
          /\ IsLifetime(d, "transient")
          /\ d \notin Range(scopes[context.scope].path)
          /\ SingletonOnStack )
        => /\ exc' = NoError
           /\ frames' = Append(frames, NewFrame(d, context.scope, FALSE))
           /\ scopes'[context.scope].path = Append(scopes[context.scope].path, d)
           /\ stats'[context.scope].called[d] = stats[context.scope].called[d] + 1
           /\ UNCHANGED <<retainedSingleton, nextId>>

(* C18 as amended: the lifetime check is applied to scoped misses only.  A   *)
(* transient name that is resolved while a singleton is on the stack, and is *)
(* not on the stack itself, is pushed and its factory is executed; a         *)
(* lifetime ResolveError always names a scoped service.                      *)
C18_TransientNotChecked ==
    /\ []LifetimeErrorsNameScoped
    /\ [][TransientUnderSingletonStep]_vars

(* C18: a read of a singleton whose factory reads a transient name has       *)
(* returned the singleton, built from the transient instance and cached.     *)
C18_Witness ==
    /\ Idle
    /\ result.kind = "value"
    /\ result.key \in Names
    /\ ~context.exotic.given
    /\ IsLifetime(result.key, "singleton")
    /\ retainedSingleton[scopes[context.scope].provider][result.key] = result.value
    /\ result.value # Undefined
    /\ \E d \in Range(registry[result.key].deps) :
         /\ d \in Names
         /\ IsLifetime(d, "transient")
         /\ stats[context.scope].called[d] >= 1
         /\ stats[context.scope].failed[d] = 0

\* m is a singleton whose factory reads the singleton d, and both return an object.
SingletonPair(m, d) ==
    /\ m # d
    /\ d \in DepsOf(m)
    /\ IsLifetime(m, "singleton") /\ IsLifetime(d, "singleton")
    /\ registry[m].outcome = "ok" /\ registry[d].outcome = "ok"
    /\ Healthy(m)

(* C19: singleton depending on singleton.  Reading a singleton m whose       *)
(* factory reads another singleton d that is not cached yet ends without a   *)
(* ResolveError; each of the two factories is executed once in all; d is     *)
(* stored in the provider's singleton cache before m is; and every scope of  *)
(* the provider is given the same two instances afterwards.                  *)
C19_SingletonOnSingleton ==
    \A p \in providers, m \in Names, d \in Names :
        (SingletonPair(m, d) /\ NoShadowedReads) =>
            LET S == ScopesOf(p)
                rs == retainedSingleton[p]
            IN  /\ SumStat("called", m, S) <= 1
                /\ SumStat("called", d, S) <= 1
                /\ SumStat("failed", m, S) = 0
                /\ SumStat("failed", d, S) = 0
                /\ CacheHit(rs, m) =>
                      /\ CacheHit(rs, d)
                      /\ MapGet(rs, d) < MapGet(rs, m)
                /\ (Idle /\ SumStat("called", m, S) = 1) =>
                      /\ CacheHit(rs, m)
                      /\ SumStat("called", d, S) = 1
                /\ \A s \in S :
                      /\ returned[s][m] \subseteq Held(rs, m)
                      /\ returned[s][d] \subseteq Held(rs, d)
                      /\ ( /\ Finished
                           /\ context.scope = s
                           /\ result.key = m )
                         => result = Value(m, MapGet(rs, m))

(* C19: in the all-singleton fixture, b was read through two scopes: the     *)
(* first read constructed a and then b, the second was given the cached b.   *)
C19_Witness ==
    /\ Idle
    /\ NoShadowedReads
    /\ SingletonPair("b", "a")
    /\ Len(scopes) = 2
    /\ scopes[1].provider = scopes[2].provider
    /\ stats[1].reads["b"] = 1 /\ stats[2].reads["b"] = 1
    /\ stats[1].called["b"] + stats[2].called["b"] = 1
    /\ stats[1].called["a"] + stats[2].called["a"] = 1
    /\ stats[1].reads["a"] + stats[2].reads["a"] = 1
    /\ result = Value("b", retainedSingleton[scopes[1].provider]["b"])
    /\ retainedSingleton[scopes[1].provider]["a"] < retainedSingleton[scopes[1].provider]["b"]

\* The cache of its lifetime holds n for scope s: resolve of n in s is a hit.
Present(s, n) ==
    /\ s \in ScopeIds
    /\ n \in DOMAIN registry
    /\ \/ /\ registry[n].lifetime = "singleton"
          /\ MapGet(retainedSingleton[scopes[s].provider], n) # Undefined
       \/ /\ registry[n].lifetime = "scoped"
          /\ MapGet(scopes[s].retainedScoped, n) # Undefined

\* The error is one of the two checks of resolve.
IsCheckError(e) == e.name = "ResolveError" /\ e.kind \in {"circular", "lifetime"}

(* C20: cache hit has no effect.  Resolving a singleton that the provider's  *)
(* singleton cache holds, or a scoped name that the scope's cache holds,     *)
(* raises no lifetime or circularity error: whenever one of the two checks   *)
(* has thrown for a name, in a factory or at the top level, the cache of     *)
(* that name does not hold it (no cache changes between the throw and the    *)
(* end of the read, nor between two reads).                                  *)
C20_CacheHitNoEffect ==
    /\ (busy /\ IsCheckError(exc)) => ~Present(context.scope, exc.at)
    /\ (Finished /\ result.kind = "error" /\ IsCheckError(result.error))
       => ~Present(context.scope, result.error.at)

\* The key of a top-level read that the step makes, and the name a factory reads.
TopHitStep(k) ==
    /\ Idle
    /\ nreads' = nreads + 1
    /\ result'.key = k
    /\ ~InExotic(context'.exotic, k)
    /\ Present(context'.scope, k)

NestedHitStep(k) ==
    /\ NextResolves(k)
    /\ frames' # frames \/ exc' # exc
    /\ Present(context.scope, k)

CachedValue(s, k) ==
    IF registry[k].lifetime = "singleton"
    THEN MapGet(retainedSingleton[scopes[s].provider], k)
    ELSE MapGet(scopes[s].retainedScoped, k)

(* The rest of C20, for a name that is not on the path of the scope: the     *)
(* hit returns the cached instance to its reader, executes no factory, and   *)
(* leaves both caches and the paths as they are, also under a singleton.     *)
CacheHitStep ==
    \A k \in Names :
        /\ ( TopHitStep(k) /\ k \notin Range(scopes[context'.scope].path) )
           => /\ result' = Value(k, CachedValue(context'.scope, k))
              /\ frames' = frames /\ exc' = exc
              /\ NothingStored
        /\ ( NestedHitStep(k) /\ k \notin Range(scopes[context.scope].path) )
           => /\ Len(frames') = Len(frames)
              /\ frames'[Len(frames)].vals =
                     Append(TopFrame.vals, CachedValue(context.scope, k))
              /\ exc' = NoError
              /\ NothingStored

HitOffThePath == [][CacheHitStep]_vars

\* The names whose factories are executing in scope s, outermost first.
Executing(s) ==
    LET called == SelectSeq(frames, LAMBDA fr : fr.scope = s)
    IN  [i \in 1..Len(called) |-> called[i].name]

\* The path of a scope is the sequence of the names executing in it.
PathIsExecuting ==
    \A s \in ScopeIds :
        scopes[s].path = Executing(s)

\* No path holds a name twice, so none is longer than the registry has names.
PathHasNoRepeat ==
    \A s \in ScopeIds :
        /\ \A i \in 1..Len(scopes[s].path), j \in 1..Len(scopes[s].path) :
              scopes[s].path[i] = scopes[s].path[j] => i = j
        /\ Len(scopes[s].path) <= Cardinality(DOMAIN registry)

\* At rest, after success and after any error, every path is empty.
EmptyAtRest == Idle => (PathsEmpty /\ frames = <<>> /\ exc = NoError)

(* C21: resolution-stack invariant.  In every reachable state the path of a  *)
(* scope is the sequence, in call order, of the names whose factories are    *)
(* executing in that scope; it holds no name twice and is never longer than  *)
(* the registry has names; it is empty whenever no read is in progress,      *)
(* after success and after any error; and every read that has started ends.  *)
C21_ResolutionStack ==
    /\ []PathIsExecuting
    /\ []PathHasNoRepeat
    /\ []EmptyAtRest
    /\ (busy ~> Idle)

(* C21: three factories are executing, each called by the one before, and    *)
(* the path of the scope holds the three names in call order.                *)
C21_Witness ==
    /\ busy
    /\ Len(frames) = 3
    /\ scopes[context.scope].path = <<"c", "b", "a">>
    /\ Executing(context.scope) = <<"c", "b", "a">>

\* The name has a cache: its lifetime is singleton or scoped.
IsRetained(n) == n \in DOMAIN registry /\ registry[n].lifetime \in {"singleton", "scoped"}

\* The last read ended with an error while its name was under construction.
ConstructionFailed(k) ==
    /\ Finished
    /\ result.kind = "error"
    /\ result.key = k
    /\ IsRetained(k)
    /\ stats[context.scope].failed[k] > 0
    /\ stats[context.scope].failed[k] = stats[context.scope].called[k]

\* After the failure the caches of the name do not hold it.
FailedIsNotCached ==
    \A k \in Names : ConstructionFailed(k) => ~Present(context.scope, k)

\* What the cache of its lifetime holds for n in scope s after the step.
CachedValueAfter(s, n) ==
    IF registry[n].lifetime = "singleton"
    THEN MapGet(retainedSingleton'[scopes[s].provider], n)
    ELSE MapGet(scopes'[s].retainedScoped, n)

(* An exception leaves the construction of a name: no cache changes, the     *)
(* name is in no cache for the scope, and what the factory had been given    *)
(* by the scope before the failure is still what the caches hold.            *)
FailureStep ==
    (busy /\ exc # NoError /\ frames # <<>> /\ Len(frames') < Len(frames)) =>
        LET name == TopFrame.name
            s == TopFrame.scope
            deps == FrameDeps(TopFrame)
        IN  /\ retainedSingleton' = retainedSingleton
            /\ \A t \in ScopeIds : scopes'[t].retainedScoped = scopes[t].retainedScoped
            /\ IsRetained(name) => CachedValueAfter(s, name) = Undefined
            /\ \A i \in 1..Len(TopFrame.vals) :
                  ( /\ IsRetained(deps[i])
                    /\ ~InExotic(context.exotic, deps[i])
                    /\ TopFrame.vals[i] # Undefined )
                  => CachedValueAfter(s, deps[i]) = TopFrame.vals[i]

\* The next read of the name, through the same scope, executes its factory again.
ReadAgainStep ==
    \A k \in Names :
        ( /\ ConstructionFailed(k)
          /\ nreads' = nreads + 1
          /\ result'.key = k
          /\ context'.scope = context.scope
          /\ ~InExotic(context'.exotic, k) )
        => /\ frames' = <<NewFrame(k, context.scope, FALSE)>>
           /\ stats'[context.scope].called[k] = stats[context.scope].called[k] + 1

(* C22: failed construction is not cached.  When the construction of a       *)
(* singleton or scoped name ends with an error, because its factory throws   *)
(* or a read it makes fails, the name is stored in no cache and the next     *)
(* read of it executes its factory again; the singleton and scoped           *)
(* dependencies that were constructed before the failure stay cached.        *)
C22_FailedNotCached ==
    /\ []FailedIsNotCached
    /\ [][FailureStep /\ ReadAgainStep]_vars

(* C22: singleton c was read twice; each time its factory was given the      *)
(* singleton a and then failed on the scoped b, so c is in no cache, its     *)
(* factory has been executed twice, and a is cached from the first time.     *)
C22_Witness ==
    /\ ConstructionFailed("c")
    /\ nreads = 2
    /\ Len(scopes) = 1
    /\ stats[1].called["c"] = 2
    /\ stats[1].failed["c"] = 2
    /\ IsLifetime("c", "singleton") /\ IsLifetime("a", "singleton")
    /\ "c" \notin DOMAIN retainedSingleton[scopes[1].provider]
    /\ CacheHit(retainedSingleton[scopes[1].provider], "a")
    /\ stats[1].called["a"] = 1
    /\ stats[1].reads["a"] = 2

\* The names of a trace, and the places of its bracketed entries.
TraceNames(t) == [i \in 1..Len(t) |-> t[i].name]
Marked(t) == {i \in 1..Len(t) : t[i].marked}

\* One of the two checks of resolve has thrown during the current or last read.
CheckThrew == IsCheckError(thrown)

\* The label is the placeholder when the name of the scope was never set.
LabelOfUnnamed ==
    (CheckThrew /\ scopes[context.scope].name = Null) => message.label = "(unnamed)"

(* The trace is the path in stack order (the paths left while the exception *)
(* goes up are its beginnings), then the requested name, bracketed.         *)
TraceIsPath ==
    CheckThrew =>
        LET t == message.trace
            n == Len(t) - 1
            path == scopes[context.scope].path
        IN  /\ n >= 1
            /\ t[n + 1] = Token(thrown.at, TRUE)
            /\ busy => /\ Len(path) <= n
                       /\ SubSeq(TraceNames(t), 1, Len(path)) = path
            /\ \A i \in 1..n, j \in 1..n : t[i].name = t[j].name => i = j

\* Exactly one entry of the path is bracketed, the one the claim names.
OneEntryBracketed ==
    CheckThrew =>
        LET t == message.trace
            n == Len(t) - 1
        IN  \E i \in 1..n :
              /\ Marked(t) = {i, n + 1}
              /\ thrown.kind = "circular" => t[i].name = thrown.at
              /\ thrown.kind = "lifetime" =>
                    /\ IsLifetime(t[i].name, "singleton")
                    /\ \A j \in (i + 1)..n : ~IsLifetime(t[j].name, "singleton")

(* C23: error trace.  Every ResolveError of the circular check and of the   *)
(* lifetime check carries the label of the scope, which is the placeholder  *)
(* "(unnamed)" in both kinds when the name of the scope was never set, then *)
(* the names of the path in stack order with exactly one of them bracketed  *)
(* (circular: the earlier occurrence of the requested name; lifetime: the   *)
(* singleton nearest the top), then the requested name, bracketed.          *)
C23_ErrorTrace ==
    /\ LabelOfUnnamed
    /\ TraceIsPath
    /\ OneEntryBracketed

\* The factory of n returns undefined, and n has a cache.
ReturnsUndefined(n) == IsRetained(n) /\ registry[n].outcome = "undef"

\* The scopes that share the cache of n with scope s.
SharingCache(s, n) ==
    IF registry[n].lifetime = "singleton" THEN ScopesOf(scopes[s].provider) ELSE {s}

\* A singleton is registered, so the lifetime check can reject a scoped miss.
HasSingleton == \E m \in DOMAIN registry : registry[m].lifetime = "singleton"

(* C24: undefined result counts as a miss.  A singleton or scoped service    *)
(* whose factory returns undefined is never a cache hit: every resolve of    *)
(* it that the circular check and, for a scoped name, the lifetime check do  *)
(* not reject executes the factory again, and every read of it is given      *)
(* undefined.  A singleton or scoped service whose factory returns anything  *)
(* else is constructed at most once per cache: once no read is in progress,  *)
(* at most one execution of its factory has completed among the scopes that  *)
(* share the cache.                                                          *)
C24_UndefinedIsMiss ==
    \A s \in ScopeIds, n \in Names :
        /\ ReturnsUndefined(n) =>
              /\ ~Present(s, n)
              /\ returned[s][n] \subseteq {Undefined}
              /\ (IsLifetime(n, "singleton") \/ ~HasSingleton)
                 => stats[s].called[n] = stats[s].resolves[n] - stats[s].circular[n]
              /\ stats[s].called[n] <= stats[s].resolves[n] - stats[s].circular[n]
        /\ (IsRetained(n) /\ registry[n].outcome = "ok" /\ Idle) =>
              LET S == SharingCache(s, n)
              IN  SumStat("called", n, S) - SumStat("failed", n, S) <= 1

====
